---- MODULE Spec2Model ----
(***************************************************************************)
(* Intelligent Study Planner (IntelligentStudyPlanner.py).                 *)
(*                                                                         *)
(* State machine of the command loop (add subject, plan, schedule,         *)
(* reschedule, timetable, reset), of the clash resolver and of the         *)
(* timetable builder, whose nested allocation loop is modelled one         *)
(* iteration at a time.                                                    *)
(*                                                                         *)
(* Dates are proleptic Gregorian day numbers (date.toordinal()); the       *)
(* persisted form of a date is its "YYYY-MM-DD" text, modelled as the      *)
(* record [y, m, d] of its three numeric fields.  Times of day are seconds *)
(* counted from midnight of the day being planned; a recorded block holds  *)
(* the "%H:%M" text of its start and end, modelled as minutes of the day.  *)
(* Hours read as float are counted in seconds; the time line built from    *)
(* them with timedelta has a coarser grid (Resolution), as a timedelta     *)
(* holds whole microseconds and a float of hours can carry less.           *)
(***************************************************************************)
EXTENDS Integers, Sequences, FiniteSets, TLC

VARIABLES
    subjects,       \* the global list `subjects` (line 99)
    disk,           \* content of data/subjects.json
    model,          \* the fitted regression, or "none" (lines 112-119)
    pc,             \* control position
    cmd,            \* the command last read by main
    result,         \* what that command reported
    saved,          \* whether that command called save_subjects
    plan,           \* main's `plan` while generate_timetable runs
    params,         \* start_hour, end_hour, block_hours, break_minutes, order_pref
    timetable,      \* generate_timetable: timetable (insertion-ordered dict)
    day_offset,     \* generate_timetable: loop variable of line 293
    day_order,      \* generate_timetable: visiting order of the day
    hours_left,     \* generate_timetable: remaining quota by name, in seconds
    current_time,   \* generate_timetable: cursor, seconds from midnight of the day
    day_schedule,   \* generate_timetable: blocks of the day
    idx,            \* generate_timetable: position of the for loop of line 317
    spans,          \* history: the blocks of the day as (from, to, name), in seconds,
                    \* each with the hours its subject had left when it was given
    history,        \* history: the spans of every recorded day
    round_from,     \* history: how many spans the day had when the current pass of
                    \* the while loop of line 316 began
    subs_in,        \* resolver harness: the list handed to rearrange_schedule
    subs_once,      \* resolver harness: the list after one call
    subs_twice      \* resolver harness: the list after a second call

vars == <<subjects, disk, model, pc, cmd, result, saved, plan, params, timetable,
          day_offset, day_order, hours_left, current_time, day_schedule, idx,
          spans, history, round_from, subs_in, subs_once, subs_twice>>

storeVars == <<subjects, disk>>
ttVars == <<plan, params, timetable, day_offset, day_order, hours_left,
            current_time, day_schedule, idx, spans, history, round_from>>
harnessVars == <<subs_in, subs_once, subs_twice>>

-----------------------------------------------------------------------------
(* Bounds of the model *)

MaxSubjects == 2
MaxResolve == 4
MaxBlocks == 5

-----------------------------------------------------------------------------
(* Configuration defaults (lines 31, 43-48) *)

difficulty_map == ("low" :> 1) @@ ("medium" :> 2) @@ ("high" :> 3)
plan_min_hours == 1

None == "None"

InSeq(x, s) == \E i \in 1..Len(s) : s[i] = x
Range(s) == {s[i] : i \in 1..Len(s)}

-----------------------------------------------------------------------------
(* Calendar: datetime.date, strptime("%Y-%m-%d"), strftime("%Y-%m-%d") *)

IsLeap(y) == (y % 4 = 0) /\ ((y % 100 # 0) \/ (y % 400 = 0))

DaysInMonth(y, m) ==
    IF m = 2 THEN (IF IsLeap(y) THEN 29 ELSE 28)
    ELSE IF m \in {4, 6, 9, 11} THEN 30 ELSE 31

DaysBeforeYear(y) ==
    LET p == y - 1 IN p * 365 + (p \div 4) - (p \div 100) + (p \div 400)

RECURSIVE DaysBeforeMonth(_, _)
DaysBeforeMonth(y, m) ==
    IF m = 1 THEN 0 ELSE DaysBeforeMonth(y, m - 1) + DaysInMonth(y, m - 1)

ToOrdinal(y, m, d) == DaysBeforeYear(y) + DaysBeforeMonth(y, m) + d

ValidDateText(t) ==
    /\ t.y \in 1..9999
    /\ t.m \in 1..12
    /\ t.d \in 1..DaysInMonth(t.y, t.m)

\* parse_date: the day number of a well-formed text; raises otherwise
parse_date(t) == ToOrdinal(t.y, t.m, t.d)

\* strftime("%Y-%m-%d") of a day number
FormatDate(n) ==
    LET y == CHOOSE yy \in (n \div 366)..(n \div 365 + 1) :
                 DaysBeforeYear(yy) < n /\ n <= DaysBeforeYear(yy + 1)
        r == n - DaysBeforeYear(y)
        m == CHOOSE mm \in 1..12 :
                 DaysBeforeMonth(y, mm) < r /\ r <= DaysBeforeMonth(y, mm) + DaysInMonth(y, mm)
    IN [y |-> y, m |-> m, d |-> r - DaysBeforeMonth(y, m)]

DateText(y, m, d) == [y |-> y, m |-> m, d |-> d]

\* datetime.date.today(): the session runs on 2024-06-29
Today == ToOrdinal(2024, 6, 29)

-----------------------------------------------------------------------------
(* Persistence (lines 74-96) *)

load_subjects(raw) ==
    [i \in 1..Len(raw) |->
        [raw[i] EXCEPT !.deadline =
            IF ValidDateText(@) THEN parse_date(@) ELSE Today]]

save_subjects(subs) ==
    [i \in 1..Len(subs) |-> [subs[i] EXCEPT !.deadline = FormatDate(@)]]

-----------------------------------------------------------------------------
(* Hour predictor (lines 111-132) *)

\* math.ceil(n / q), q > 0
Ceil(n, q) == -((-n) \div q)

\* round(n / q), q > 0: to the nearest integer, halves to the even one
RoundHalfEven(n, q) ==
    LET f == n \div q
        r == n - f * q
    IN  IF 2 * r < q THEN f
        ELSE IF 2 * r > q THEN f + 1
        ELSE IF f % 2 = 0 THEN f ELSE f + 1

\* LinearRegression().fit(X, y) on DEFAULT_ML (line 43): the least-squares plane
\* through the six points is y = 173/42 + diff/2 - 3*marks/70
ModelPredictTimes210(diff, marks) == 865 + 105 * diff - 9 * marks

Max(a, b) == IF a >= b THEN a ELSE b
Min(a, b) == IF a <= b THEN a ELSE b

predict_study_hours(diff, marks) ==
    IF model # "none"
    THEN Max(plan_min_hours, RoundHalfEven(ModelPredictTimes210(diff, marks), 210))
    ELSE Max(1, plan_min_hours + Ceil(diff * (50 + Max(0, 100 - marks)), 50))

-----------------------------------------------------------------------------
(* Clash detection and resolution (lines 136-149) *)

detect_clashes(subs) ==
    Len(subs) # Cardinality({subs[i].deadline : i \in 1..Len(subs)})

\* variant: equal deadlines visited latest-inserted first
SortedRankTiesReversed(subs, i) ==
    1 + Cardinality({j \in 1..Len(subs) :
            \/ subs[j].deadline < subs[i].deadline
            \/ (subs[j].deadline = subs[i].deadline /\ j > i)})

\* sorted(subs, key=deadline) is stable: position of subs[i] in the sorted list
SortedRank(subs, i) ==
    1 + Cardinality({j \in 1..Len(subs) :
            \/ subs[j].deadline < subs[i].deadline
            \/ (subs[j].deadline = subs[i].deadline /\ j < i)})

\* the indices of subs in the order sorted() visits them
SortedOrder(subs) ==
    [k \in 1..Len(subs) |-> CHOOSE i \in 1..Len(subs) : SortedRank(subs, i) = k]

\* variant: `if d in used` in place of the while loop
NextFreeOneStep(d, used) == IF d \in used THEN d + 1 ELSE d

\* variant: the search for a free day steps two days at a time
RECURSIVE NextFreeByTwo(_, _)
NextFreeByTwo(d, used) == IF d \in used THEN NextFreeByTwo(d + 2, used) ELSE d

\* while d in used: d += 1 day
RECURSIVE NextFree(_, _)
NextFree(d, used) == IF d \in used THEN NextFree(d + 1, used) ELSE d

\* variant: the date found is stored at position k of the list, not in the
\* subject the sorted pass is visiting
RECURSIVE RearrangeByPosition(_, _, _, _)
RearrangeByPosition(subs, order, k, used) ==
    IF k > Len(order) THEN subs
    ELSE LET d == NextFree(subs[order[k]].deadline, used)
         IN  RearrangeByPosition([subs EXCEPT ![k].deadline = d], order, k + 1,
                                 used \cup {d})

\* the for loop of lines 144-149 from position k on
RECURSIVE RearrangeFrom(_, _, _, _)
RearrangeFrom(subs, order, k, used) ==
    IF k > Len(order) THEN subs
    ELSE LET i == order[k]
             d == NextFree(subs[i].deadline, used)
         IN  RearrangeFrom([subs EXCEPT ![i].deadline = d], order, k + 1, used \cup {d})

rearrange_schedule(subs) == RearrangeFrom(subs, SortedOrder(subs), 1, {})

\* handle_clashes: the dates shared by more than one subject (lines 153-157)
Conflicts(subs) ==
    {d \in {subs[i].deadline : i \in 1..Len(subs)} :
        Cardinality({i \in 1..Len(subs) : subs[i].deadline = d}) > 1}

\* variant: the rearranged list is not written back
handle_clashes_unsaved(subs, choice) ==
    IF Conflicts(subs) = {} THEN [subs |-> subs, saved |-> FALSE]
    ELSE IF choice = "yes" THEN [subs |-> rearrange_schedule(subs), saved |-> FALSE]
    ELSE [subs |-> subs, saved |-> FALSE]

\* handle_clashes (lines 152-169): the list it leaves, and whether it saved
handle_clashes(subs, choice) ==
    IF Conflicts(subs) = {} THEN [subs |-> subs, saved |-> FALSE]
    ELSE IF choice = "yes" THEN [subs |-> rearrange_schedule(subs), saved |-> TRUE]
    ELSE [subs |-> subs, saved |-> FALSE]

\* generate_plan returns None for an empty list: a plan without entries
NoPlan == <<>>
HasPlan(p) == DOMAIN p # {}

\* generate_plan (lines 205-221); later entries of a repeated name overwrite
\* earlier ones
generate_plan(subs) ==
    IF Len(subs) = 0 THEN NoPlan
    ELSE [n \in {subs[i].name : i \in 1..Len(subs)} |->
            LET last == CHOOSE i \in 1..Len(subs) :
                            /\ subs[i].name = n
                            /\ \A j \in (i + 1)..Len(subs) : subs[j].name # n
                s == subs[last]
            IN  [daily_hours |-> predict_study_hours(s.difficulty, s.marks),
                 days_left |-> Max(1, s.deadline - Today),
                 deadline |-> s.deadline]]

-----------------------------------------------------------------------------
(* Timetable builder (lines 272-336) *)

\* strftime('%H:%M') of the cursor: the minute of the day, seconds dropped
HHMM(t) == (t % 86400) \div 60

\* datetime.timedelta(hours=h), datetime.timedelta(minutes=m), in seconds
Hours(h) == h * 3600
Minutes(m) == m * 60

\* A timedelta holds whole microseconds, while block_hours and hours_left are
\* floats of hours that can carry less than that.  The grid of the model's time
\* line stands for the microsecond: every time of day is a multiple of
\* Resolution seconds, and a float of hours may fall between two grid points.
Resolution == 30

\* datetime.timedelta(hours=x) for a float x, given here in seconds: rounded to
\* the nearest grid point, halves to the even one
timedelta_hours(x) == Resolution * RoundHalfEven(x, Resolution)

MaxDeadline(subs) ==
    CHOOSE d \in {subs[i].deadline : i \in 1..Len(subs)} :
        \A i \in 1..Len(subs) : subs[i].deadline <= d

\* variant: the day of the latest deadline is left out of the range
total_days_exclusive == MaxDeadline(subjects) - Today

\* line 289
total_days == MaxDeadline(subjects) - Today + 1

day_date == Today + day_offset

\* variant: the deadline day itself is excluded
IsActiveBeforeDeadline(s, day) == s.deadline > day

IsActive(s, day) == s.deadline >= day

\* line 295
active_subjects(day) == SelectSeq(subjects, LAMBDA s : IsActive(s, day))

NamesOf(subs) == [i \in 1..Len(subs) |-> subs[i].name]

\* variant: the days are counted from one, so the first day is already rotated
RotateFromDayOne(order, offset) ==
    LET k == (offset + 1) % Len(order)
    IN  SubSeq(order, k + 1, Len(order)) \o SubSeq(order, 1, k)

\* line 304
Rotate(order, offset) ==
    LET k == offset % Len(order)
    IN  SubSeq(order, k + 1, Len(order)) \o SubSeq(order, 1, k)

\* lines 300-309
DayOrder(active, pref, offset) ==
    IF pref = "A" THEN NamesOf(active)
    ELSE IF pref = "B" THEN Rotate(NamesOf(active), offset)
    ELSE IF pref = "C" THEN
        LET order == SortedOrder(active)
        IN  [k \in 1..Len(active) |-> active[order[k]].name]
    ELSE NamesOf(active)

\* line 311, the quota in seconds
HoursLeft(active) ==
    [n \in Range(NamesOf(active)) |-> Hours(plan[n].daily_hours)]

\* datetime.time(hour, 0) raises ValueError outside 0..23
ValidHour(h) == h \in 0..23

start_time == Hours(params.start_hour)
end_time == Hours(params.end_hour)

\* line 316 and line 324: a whole block still fits before end_time
BlockFits(t) == t + timedelta_hours(params.block_hours) <= end_time

\* any(hours_left.values())
AnyLeft == \E n \in DOMAIN hours_left : hours_left[n] # 0

\* variant: any() in place of all(), the day ends with the first quota used up
AnyDone == \E n \in DOMAIN hours_left : hours_left[n] <= 0

\* all(h <= 0 for h in hours_left.values())
AllDone == \A n \in DOMAIN hours_left : hours_left[n] <= 0

\* variant: a whole block whatever is left of the quota
BlockLengthUnclamped(left) == params.block_hours

\* line 320 and line 322: min(block_hours, hours_left[sub_name]), a float of hours
BlockLength(left) == Min(params.block_hours, left)

\* variant: the break is taken off the cursor instead of added
NextCursorBreakSubtracted(block_end) == block_end - Minutes(params.break_minutes)

\* line 323: the cursor after a block
NextCursor(block_end) == block_end + Minutes(params.break_minutes)

NoParams == [start_hour |-> 0, end_hour |-> 0, block_hours |-> 0,
             break_minutes |-> 0, order_pref |-> None]

ttIdle ==
    /\ plan = NoPlan
    /\ params = NoParams
    /\ timetable = <<>>
    /\ day_offset = 0
    /\ day_order = <<>>
    /\ hours_left = <<>>
    /\ current_time = 0
    /\ day_schedule = <<>>
    /\ idx = 0
    /\ spans = <<>>
    /\ history = <<>>
    /\ round_from = 0

\* main, lines 368-371, and generate_timetable up to line 291
timetable_command(P) ==
    /\ pc = "prompt"
    /\ cmd' = "timetable"
    /\ saved' = FALSE
    /\ UNCHANGED <<storeVars, model, harnessVars>>
    /\ IF ~HasPlan(generate_plan(subjects))
       THEN /\ result' = "EmptyPlan"
            /\ pc' = "prompt"
            /\ UNCHANGED ttVars
       ELSE \E p \in P :
            /\ plan' = generate_plan(subjects)
            /\ params' = p
            /\ timetable' = <<>>
            /\ day_offset' = 0
            /\ result' = "running"
            /\ pc' = "day"
            /\ UNCHANGED <<day_order, hours_left, current_time, day_schedule, idx,
                           spans, history, round_from>>

\* line 293, range exhausted: fall through to the printing loop
DaysDone ==
    /\ pc = "day"
    /\ day_offset >= total_days
    /\ pc' = "print"
    /\ UNCHANGED <<storeVars, model, harnessVars, cmd, result, saved, plan, params,
                   timetable, day_offset, day_order, hours_left, current_time,
                   day_schedule, idx, spans, history, round_from>>

\* lines 294-314: one pass of the day loop up to the while
DayBegin ==
    /\ pc = "day"
    /\ day_offset < total_days
    /\ LET active == active_subjects(day_date)
       IN  IF Len(active) = 0
           THEN /\ day_offset' = day_offset + 1
                /\ pc' = "day"
                /\ UNCHANGED <<day_order, hours_left, current_time, day_schedule,
                               idx, spans, round_from, result>>
           ELSE /\ day_order' = DayOrder(active, params.order_pref, day_offset)
                /\ hours_left' = HoursLeft(active)
                /\ IF ValidHour(params.start_hour) /\ ValidHour(params.end_hour)
                   THEN /\ current_time' = start_time
                        /\ day_schedule' = <<>>
                        /\ spans' = <<>>
                        /\ round_from' = 0
                        /\ idx' = 0
                        /\ pc' = "while"
                        /\ UNCHANGED result
                   ELSE /\ pc' = "crashed"
                        /\ result' = "ValueError"
                        /\ UNCHANGED <<current_time, day_schedule, spans,
                                       round_from, idx>>
                /\ UNCHANGED day_offset
    /\ UNCHANGED <<storeVars, model, harnessVars, cmd, saved, plan, params,
                   timetable, history>>

\* line 316
WhileTest ==
    /\ pc = "while"
    /\ IF BlockFits(current_time) /\ AnyLeft
       THEN idx' = 1 /\ pc' = "for" /\ round_from' = Len(spans)
       ELSE idx' = idx /\ pc' = "record" /\ round_from' = round_from
    /\ UNCHANGED <<storeVars, model, harnessVars, cmd, result, saved, plan, params,
                   timetable, day_offset, day_order, hours_left, current_time,
                   day_schedule, spans, history>>

\* line 317, the for loop has no subject left: on to line 326
ForEnd ==
    /\ pc = "for"
    /\ idx > Len(day_order)
    /\ pc' = "after_for"
    /\ UNCHANGED <<storeVars, model, harnessVars, cmd, result, saved, plan, params,
                   timetable, day_offset, day_order, hours_left, current_time,
                   day_schedule, idx, spans, history, round_from>>

\* lines 318-319
ForSkip ==
    /\ pc = "for"
    /\ idx <= Len(day_order)
    /\ hours_left[day_order[idx]] <= 0
    /\ idx' = idx + 1
    /\ UNCHANGED <<storeVars, model, harnessVars, cmd, result, saved, plan, params,
                   timetable, day_offset, day_order, hours_left, current_time,
                   day_schedule, pc, spans, history, round_from>>

\* variant: the for loop stays on the subject it has just served
ForAllocSameSubject ==
    /\ pc = "for"
    /\ idx <= Len(day_order)
    /\ hours_left[day_order[idx]] > 0
    /\ params.block_hours > 0 \/ Len(day_schedule) < MaxBlocks
    /\ LET sub_name == day_order[idx]
           length == BlockLength(hours_left[sub_name])
           block_end == current_time + timedelta_hours(length)
       IN  /\ day_schedule' = Append(day_schedule,
                  [start |-> HHMM(current_time), end |-> HHMM(block_end),
                   name |-> sub_name])
           /\ spans' = Append(spans,
                  [from |-> current_time, to |-> block_end, name |-> sub_name,
                   left |-> hours_left[sub_name]])
           /\ hours_left' = [hours_left EXCEPT ![sub_name] = @ - length]
           /\ current_time' = NextCursor(block_end)
           /\ IF ~BlockFits(current_time')
              THEN pc' = "after_for" /\ idx' = idx
              ELSE pc' = "for" /\ idx' = idx
    /\ UNCHANGED <<storeVars, model, harnessVars, cmd, result, saved, plan, params,
                   timetable, day_offset, day_order, history, round_from>>

\* lines 320-325
ForAlloc ==
    /\ pc = "for"
    /\ idx <= Len(day_order)
    /\ hours_left[day_order[idx]] > 0
    /\ params.block_hours > 0 \/ Len(day_schedule) < MaxBlocks
    /\ LET sub_name == day_order[idx]
           length == BlockLength(hours_left[sub_name])
           block_end == current_time + timedelta_hours(length)
       IN  /\ day_schedule' = Append(day_schedule,
                  [start |-> HHMM(current_time), end |-> HHMM(block_end),
                   name |-> sub_name])
           /\ spans' = Append(spans,
                  [from |-> current_time, to |-> block_end, name |-> sub_name,
                   left |-> hours_left[sub_name]])
           /\ hours_left' = [hours_left EXCEPT ![sub_name] = @ - length]
           /\ current_time' = NextCursor(block_end)
           /\ IF ~BlockFits(current_time')
              THEN pc' = "after_for" /\ idx' = idx
              ELSE pc' = "for" /\ idx' = idx + 1
    /\ UNCHANGED <<storeVars, model, harnessVars, cmd, result, saved, plan, params,
                   timetable, day_offset, day_order, history, round_from>>

\* lines 326-327
AfterFor ==
    /\ pc = "after_for"
    /\ pc' = IF AllDone THEN "record" ELSE "while"
    /\ UNCHANGED <<storeVars, model, harnessVars, cmd, result, saved, plan, params,
                   timetable, day_offset, day_order, hours_left, current_time,
                   day_schedule, idx, spans, history, round_from>>

\* line 329 and the next pass of line 293
RecordDay ==
    /\ pc = "record"
    /\ timetable' = Append(timetable, [date |-> day_date, blocks |-> day_schedule])
    /\ history' = Append(history, [date |-> day_date, spans |-> spans,
                                    order |-> day_order])
    /\ day_offset' = day_offset + 1
    /\ pc' = "day"
    /\ UNCHANGED <<storeVars, model, harnessVars, cmd, result, saved, plan, params,
                   day_order, hours_left, current_time, day_schedule, idx, spans, round_from>>

\* lines 331-336: print and return to main's prompt; the locals die
PrintTimetable ==
    /\ pc = "print"
    /\ pc' = "prompt"
    /\ result' = "timetable"
    /\ plan' = NoPlan
    /\ params' = NoParams
    /\ timetable' = <<>>
    /\ day_offset' = 0
    /\ day_order' = <<>>
    /\ hours_left' = <<>>
    /\ current_time' = 0
    /\ day_schedule' = <<>>
    /\ idx' = 0
    /\ spans' = <<>>
    /\ history' = <<>>
    /\ round_from' = 0
    /\ UNCHANGED <<storeVars, model, harnessVars, cmd, saved>>

-----------------------------------------------------------------------------
(* Commands (lines 173-203, 245-268, 340-377) *)

\* str.lower() on the difficulty tokens in use
Lower(tok) == IF tok = "High" THEN "high" ELSE tok

\* int(marks_str) on the marks tokens in use; raises outside its domain
IntOf == ("100" :> 100) @@ ("50" :> 50)

\* variant: the last subject of that name is the one found
LastIndex(subs, name) ==
    CHOOSE i \in 1..Len(subs) :
        subs[i].name = name /\ \A j \in (i + 1)..Len(subs) : subs[j].name # name

\* lines 256-257: the first subject of that name
FirstIndex(subs, name) ==
    CHOOSE i \in 1..Len(subs) :
        subs[i].name = name /\ \A j \in 1..(i - 1) : subs[j].name # name

\* variant: the record is appended before the marks are parsed
add_subject_append_first(nparts, name, diff_str, deadline_str, marks_str, choice) ==
    /\ pc = "prompt"
    /\ cmd' = "add"
    /\ UNCHANGED <<model, pc, ttVars, harnessVars>>
    /\ IF nparts # 6
       THEN result' = "invalid_format_add" /\ saved' = FALSE /\ UNCHANGED storeVars
       ELSE IF Lower(diff_str) \notin DOMAIN difficulty_map
       THEN result' = "invalid_diff" /\ saved' = FALSE /\ UNCHANGED storeVars
       ELSE IF ~ValidDateText(deadline_str)
       THEN result' = "invalid_date" /\ saved' = FALSE /\ UNCHANGED storeVars
       ELSE /\ Len(subjects) < MaxSubjects
            /\ LET subject == [name |-> name,
                               difficulty |-> difficulty_map[Lower(diff_str)],
                               deadline |-> parse_date(deadline_str),
                               marks |-> IF marks_str \in DOMAIN IntOf
                                         THEN IntOf[marks_str] ELSE 0]
                   appended == Append(subjects, subject)
               IN  IF marks_str \notin DOMAIN IntOf
                   THEN /\ subjects' = appended
                        /\ result' = "invalid_marks"
                        /\ saved' = FALSE
                        /\ UNCHANGED disk
                   ELSE /\ subjects' = appended
                        /\ disk' = save_subjects(appended)
                        /\ saved' = TRUE
                        /\ result' = "added"

\* add_subject_command
add_subject_command(nparts, name, diff_str, deadline_str, marks_str, choice) ==
    /\ pc = "prompt"
    /\ cmd' = "add"
    /\ UNCHANGED <<model, pc, ttVars, harnessVars>>
    /\ IF nparts # 6
       THEN result' = "invalid_format_add" /\ saved' = FALSE /\ UNCHANGED storeVars
       ELSE IF Lower(diff_str) \notin DOMAIN difficulty_map
       THEN result' = "invalid_diff" /\ saved' = FALSE /\ UNCHANGED storeVars
       ELSE IF ~ValidDateText(deadline_str)
       THEN result' = "invalid_date" /\ saved' = FALSE /\ UNCHANGED storeVars
       ELSE IF marks_str \notin DOMAIN IntOf
       THEN result' = "invalid_marks" /\ saved' = FALSE /\ UNCHANGED storeVars
       ELSE /\ Len(subjects) < MaxSubjects
            /\ LET subject == [name |-> name,
                               difficulty |-> difficulty_map[Lower(diff_str)],
                               deadline |-> parse_date(deadline_str),
                               marks |-> IntOf[marks_str]]
                   appended == Append(subjects, subject)
                   after == IF detect_clashes(appended)
                            THEN handle_clashes(appended, choice)
                            ELSE [subs |-> appended, saved |-> FALSE]
               IN  /\ subjects' = after.subs
                   /\ disk' = IF after.saved THEN save_subjects(after.subs)
                              ELSE save_subjects(appended)
            /\ saved' = TRUE
            /\ result' = "added"

\* main, line 357
plan_command ==
    /\ pc = "prompt"
    /\ cmd' = "plan"
    /\ result' = IF ~HasPlan(generate_plan(subjects)) THEN "EmptyPlan" ELSE "plan"
    /\ saved' = FALSE
    /\ UNCHANGED <<storeVars, model, pc, ttVars, harnessVars>>

\* main, lines 358-363
schedule_command(choice) ==
    /\ pc = "prompt"
    /\ cmd' = "schedule"
    /\ LET after == IF detect_clashes(subjects)
                    THEN handle_clashes(subjects, choice)
                    ELSE [subs |-> subjects, saved |-> FALSE]
       IN  /\ subjects' = after.subs
           /\ disk' = IF after.saved THEN save_subjects(after.subs) ELSE disk
           /\ saved' = after.saved
           /\ result' = IF ~HasPlan(generate_plan(after.subs)) THEN "EmptyPlan"
                        ELSE "schedule"
    /\ UNCHANGED <<model, pc, ttVars, harnessVars>>

\* reschedule_subject
reschedule_subject(nparts, name, new_date_str) ==
    /\ pc = "prompt"
    /\ cmd' = "reschedule"
    /\ UNCHANGED <<model, pc, ttVars, harnessVars>>
    /\ IF nparts # 3
       THEN result' = "invalid_format_res" /\ saved' = FALSE /\ UNCHANGED storeVars
       ELSE IF ~ValidDateText(new_date_str)
       THEN result' = "invalid_date" /\ saved' = FALSE /\ UNCHANGED storeVars
       ELSE IF \A i \in 1..Len(subjects) : subjects[i].name # name
       THEN result' = "not_found" /\ saved' = FALSE /\ UNCHANGED storeVars
       ELSE /\ subjects' = [subjects EXCEPT ![FirstIndex(subjects, name)].deadline =
                                parse_date(new_date_str)]
            /\ disk' = save_subjects(subjects')
            /\ saved' = TRUE
            /\ result' = "rescheduled"

\* reset_command
reset_command ==
    /\ pc = "prompt"
    /\ cmd' = "reset"
    /\ subjects' = <<>>
    /\ disk' = save_subjects(subjects')
    /\ saved' = TRUE
    /\ result' = "reset"
    /\ UNCHANGED <<model, pc, ttVars, harnessVars>>

\* main, lines 372-374
exit_command ==
    /\ pc = "prompt"
    /\ cmd' = "exit"
    /\ result' = "bye"
    /\ saved' = FALSE
    /\ pc' = "exited"
    /\ UNCHANGED <<storeVars, model, ttVars, harnessVars>>

-----------------------------------------------------------------------------
(* Inputs *)

Names == {"Math", "Art"}
DiffTokens == {"High", "hard"}
DateTokens == {DateText(2024, 6, 29), DateText(2024, 6, 30), DateText(2024, 6, 31)}
MarksTokens == {"100", "ten"}
Choices == {"yes", "no"}

Param(sh, eh, bh, bm, op) ==
    [start_hour |-> sh, end_hour |-> eh, block_hours |-> bh,
     break_minutes |-> bm, order_pref |-> op]

\* the answers given to the prompts of lines 276-284 in a session of commands
SessionParams == {Param(9, 17, 3600, 10, "A"), Param(9, 11, 5400, 0, "B")}

AddSubject ==
    \E nparts \in {5, 6}, name \in Names, diff_str \in DiffTokens,
       deadline_str \in DateTokens, marks_str \in MarksTokens, choice \in Choices :
        add_subject_command(nparts, name, diff_str, deadline_str, marks_str, choice)

Plan == plan_command

Schedule == \E choice \in Choices : schedule_command(choice)

Reschedule ==
    \E nparts \in {2, 3}, name \in Names \cup {"Bio"}, new_date_str \in DateTokens :
        reschedule_subject(nparts, name, new_date_str)

Reset == reset_command

Exit == exit_command

Timetable == timetable_command(SessionParams)

\* data/subjects.json as an earlier session may have left it
InitialFiles ==
    {<<>>,
     <<[name |-> "Math", difficulty |-> 2, deadline |-> DateText(2024, 6, 30),
        marks |-> 50]>>,
     <<[name |-> "Art", difficulty |-> 1, deadline |-> DateText(2024, 2, 30),
        marks |-> 100]>>}

Init ==
    /\ disk \in InitialFiles
    /\ subjects = load_subjects(disk)
    /\ model \in {"none", "linreg"}
    /\ pc = "prompt"
    /\ cmd = None
    /\ result = None
    /\ saved = FALSE
    /\ ttIdle
    /\ subs_in = <<>> /\ subs_once = <<>> /\ subs_twice = <<>>

Next ==
    \/ AddSubject \/ Plan \/ Schedule \/ Reschedule \/ Reset \/ Exit \/ Timetable
    \/ DaysDone \/ DayBegin \/ WhileTest \/ ForEnd \/ ForSkip \/ ForAlloc
    \/ AfterFor \/ RecordDay \/ PrintTimetable

Spec == Init /\ [][Next]_vars

-----------------------------------------------------------------------------
(* generate_timetable on its own: any stored list, any answers to its prompts *)

Subject(name, difficulty, deadline, marks) ==
    [name |-> name, difficulty |-> difficulty, deadline |-> deadline, marks |-> marks]

SubjectPool ==
    {Subject("Math", 1, Today + k, 100) : k \in {-1, 0, 1, 3}}
    \cup {Subject("Art", 1, Today + k, 50) : k \in {-1, 0, 1}}

SeqsUpTo(S, n) == UNION {[1..k -> S] : k \in 0..n}

\* end_hour > start_hour, block_hours > 0, break_minutes >= 0
ValidParams ==
    {Param(sh, 12, bh, bm, op) :
        sh \in {9, 11}, bh \in {3570, 3600, 5400}, bm \in {0, 10},
        op \in {"A", "B", "C", "Z"}}

\* answers the prompts accept although the window they describe is malformed
MalformedParams ==
    {Param(10, 9, 3600, 0, "A"), Param(9, 9, 3600, 0, "A"),
     Param(9, 12, 0, 0, "A"), Param(9, 12, 0, 90, "A"),
     Param(9, 12, -3600, 0, "A"), Param(9, 12, -3600, 90, "A"),
     Param(9, 12, 3600, -90, "A"), Param(9, 24, 3600, 0, "A")}

\* valid as well, with block_hours typed as 0.3333333333333333: a float just
\* short of a third of an hour, which timedelta rounds to 20 minutes
InexactParams == {Param(9, 12, Hours(1) \div 3 - 1, bm, "A") : bm \in {0, 10}}

GenerateTimetable ==
    timetable_command(ValidParams \cup InexactParams \cup MalformedParams)

InitTimetable ==
    /\ subjects \in SeqsUpTo(SubjectPool, MaxSubjects)
    /\ disk = save_subjects(subjects)
    /\ model \in {"none", "linreg"}
    /\ pc = "prompt"
    /\ cmd = None
    /\ result = None
    /\ saved = FALSE
    /\ ttIdle
    /\ subs_in = <<>> /\ subs_once = <<>> /\ subs_twice = <<>>

NextTimetable ==
    \/ GenerateTimetable
    \/ DaysDone \/ DayBegin \/ WhileTest \/ ForEnd \/ ForSkip \/ ForAlloc
    \/ AfterFor \/ RecordDay \/ PrintTimetable

SpecTimetable == InitTimetable /\ [][NextTimetable]_vars

-----------------------------------------------------------------------------
(* rearrange_schedule and detect_clashes on their own: any list of subjects *)

HarnessNames == <<"Math", "Art", "Bio", "Chem", "Law", "Music">>
HarnessDates == {Today, Today + 1, Today + 2}

HarnessLists ==
    {[i \in 1..Len(ds) |-> Subject(HarnessNames[i], 1, ds[i], 100)] :
        ds \in SeqsUpTo(HarnessDates, MaxResolve)}

ResolveOnce ==
    /\ pc = "resolve"
    /\ subs_once' = rearrange_schedule(subs_in)
    /\ pc' = "resolved"
    /\ UNCHANGED <<storeVars, model, cmd, result, saved, ttVars, subs_in, subs_twice>>

ResolveTwice ==
    /\ pc = "resolved"
    /\ subs_twice' = rearrange_schedule(subs_once)
    /\ pc' = "resolved_twice"
    /\ UNCHANGED <<storeVars, model, cmd, result, saved, ttVars, subs_in, subs_once>>

InitResolve ==
    /\ subs_in \in HarnessLists
    /\ subs_once = <<>>
    /\ subs_twice = <<>>
    /\ subjects = <<>>
    /\ disk = <<>>
    /\ model = "none"
    /\ pc = "resolve"
    /\ cmd = None
    /\ result = None
    /\ saved = FALSE
    /\ ttIdle

NextResolve == ResolveOnce \/ ResolveTwice

SpecResolve == InitResolve /\ [][NextResolve]_vars

-----------------------------------------------------------------------------
(* Properties *)

Running == pc \in {"day", "while", "for", "after_for", "record", "print"}

\* the block lists built so far: the recorded days and the day in progress
DayLists ==
    {timetable[i].blocks : i \in 1..Len(timetable)}
    \cup (IF pc \in {"while", "for", "after_for", "record"} THEN {day_schedule} ELSE {})

WellFormedWindow == params.block_hours > 0 /\ params.break_minutes >= 0

StartsIncrease(blocks) ==
    \A i \in 1..(Len(blocks) - 1) : blocks[i + 1].start > blocks[i].start

StartsDoNotDecrease(blocks) ==
    \A i \in 1..(Len(blocks) - 1) : blocks[i + 1].start >= blocks[i].start

NoOverlap(blocks) ==
    \A i \in 1..(Len(blocks) - 1) : blocks[i + 1].start >= blocks[i].end

\* C1 as stated: with block_hours > 0 and break_minutes >= 0 the blocks of every
\* day are listed with strictly increasing start times and each block starts at
\* or after the end of the block before it.
C1_StrictlyIncreasingStarts ==
    (Running /\ WellFormedWindow) =>
        \A blocks \in DayLists : StartsIncrease(blocks) /\ NoOverlap(blocks)

\* C1 amended: with block_hours > 0 and break_minutes >= 0 the blocks of every
\* day are listed with start times that never decrease, and each block starts
\* at or after the end of the block before it (two blocks less than a minute
\* apart carry the same HH:MM start).
C1_OrderedWithoutOverlap ==
    (Running /\ WellFormedWindow) =>
        \A blocks \in DayLists : StartsDoNotDecrease(blocks) /\ NoOverlap(blocks)

\* a recorded day where two consecutive blocks carry the same start minute
C1_Witness ==
    /\ Running /\ WellFormedWindow
    /\ \E i \in 1..Len(timetable) :
         \E j \in 1..(Len(timetable[i].blocks) - 1) :
            /\ timetable[i].blocks[j + 1].start = timetable[i].blocks[j].start
            /\ timetable[i].blocks[j + 1].name # timetable[i].blocks[j].name

\* line 320 is about to hand out a block
AboutToAllocate ==
    /\ pc = "for"
    /\ idx <= Len(day_order)
    /\ hours_left[day_order[idx]] > 0

\* C2: a block is only ever allocated at a cursor t with start_hour:00 <= t and
\* t + block_hours <= end_hour:00, no recorded block starts before the window
\* opens or ends after it closes, and when end_hour - start_hour < block_hours
\* every day's block list is empty.
C2_AllocatedInsideWindow ==
    /\ AboutToAllocate =>
          start_time <= current_time /\ current_time + params.block_hours <= end_time
    /\ Running =>
          \A i \in 1..Len(spans) :
              start_time <= spans[i].from /\ spans[i].to <= end_time
    /\ (Running /\ Hours(params.end_hour - params.start_hour) < params.block_hours) =>
          \A blocks \in DayLists : blocks = <<>>

DistinctNames ==
    \A i, j \in 1..Len(subjects) : subjects[i].name = subjects[j].name => i = j

\* C3: with distinct names, no day holds a block labelled with a subject whose
\* deadline is before that day; every day from today to a subject's deadline
\* (included) is planned with the subject in its visiting order; and at the
\* start of such a day the subject's remaining hours are its predicted daily
\* hours.
C3_ActiveThroughDeadline ==
    DistinctNames =>
        /\ \A i \in 1..Len(timetable) : \A j \in 1..Len(timetable[i].blocks) :
               \A k \in 1..Len(subjects) :
                   subjects[k].name = timetable[i].blocks[j].name
                       => subjects[k].deadline >= timetable[i].date
        /\ (pc \in {"while", "for", "after_for", "record"}) =>
               \A j \in 1..Len(day_schedule) : \A k \in 1..Len(subjects) :
                   subjects[k].name = day_schedule[j].name
                       => subjects[k].deadline >= day_date
        /\ (pc = "while" /\ spans = <<>>) =>
               \A k \in 1..Len(subjects) :
                   subjects[k].deadline >= day_date =>
                       /\ InSeq(subjects[k].name, day_order)
                       /\ subjects[k].name \in DOMAIN hours_left
                       /\ hours_left[subjects[k].name] =
                              Hours(predict_study_hours(subjects[k].difficulty,
                                                        subjects[k].marks))
        /\ pc = "print" =>
               \A k \in 1..Len(subjects) :
                   \A d \in Today..subjects[k].deadline :
                       \E i \in 1..Len(history) :
                           /\ history[i].date = d
                           /\ InSeq(subjects[k].name, history[i].order)

\* the timetable is complete; one subject got a block on its deadline day and
\* the days after it went to the other subject alone
C3_Witness ==
    /\ pc = "print"
    /\ DistinctNames
    /\ \E k \in 1..Len(subjects) : \E i \in 1..Len(timetable) :
          /\ subjects[k].deadline = timetable[i].date
          /\ \E j \in 1..Len(timetable[i].blocks) :
                timetable[i].blocks[j].name = subjects[k].name
          /\ i < Len(timetable)

RECURSIVE GivenTo(_, _, _)
\* seconds handed to `name` by the first k spans of sp
GivenTo(sp, name, k) ==
    IF k = 0 THEN 0
    ELSE GivenTo(sp, name, k - 1)
         + (IF sp[k].name = name THEN sp[k].to - sp[k].from ELSE 0)

RECURSIVE TotalGiven(_, _)
\* seconds handed to `name` over the first n recorded days
TotalGiven(name, n) ==
    IF n = 0 THEN 0
    ELSE TotalGiven(name, n - 1)
         + GivenTo(history[n].spans, name, Len(history[n].spans))

DaysActive(name) ==
    Cardinality({i \in 1..Len(history) : InSeq(name, history[i].order)})

\* C4: on every day the blocks given to a subject add up to at most its daily
\* hours, a subject whose remaining hours are 0 gets no further block that day,
\* and over the whole timetable a subject gets at most daily_hours times the
\* number of days it was active.
C4_QuotaRespected ==
    Running =>
        /\ \A n \in DOMAIN plan :
              /\ GivenTo(spans, n, Len(spans)) <= Hours(plan[n].daily_hours)
              /\ \A i \in 1..Len(history) :
                    GivenTo(history[i].spans, n, Len(history[i].spans))
                        <= Hours(plan[n].daily_hours)
              /\ TotalGiven(n, Len(history))
                    <= Hours(plan[n].daily_hours) * DaysActive(n)
        /\ \A k \in 1..Len(spans) :
              /\ spans[k].left > 0
              /\ GivenTo(spans, spans[k].name, k - 1) <= Hours(plan[spans[k].name].daily_hours)

\* a later round of the day passes over a subject whose hours are used up,
\* while another subject still has hours left
C4_Witness ==
    /\ pc = "for"
    /\ idx <= Len(day_order)
    /\ hours_left[day_order[idx]] = 0
    /\ GivenTo(spans, day_order[idx], Len(spans)) = Hours(plan[day_order[idx]].daily_hours)
    /\ \E n \in DOMAIN hours_left : hours_left[n] > 0

PairwiseDistinct(subs) ==
    \A i, j \in 1..Len(subs) : subs[i].deadline = subs[j].deadline => i = j

Resolved == pc \in {"resolved", "resolved_twice"}

\* C5: after rearrange_schedule on a list with two or more identical deadlines
\* every pair of subjects has a different deadline and no deadline is earlier
\* than before.
C5_ClashesResolved ==
    (Resolved /\ ~PairwiseDistinct(subs_in)) =>
        /\ Len(subs_once) = Len(subs_in)
        /\ PairwiseDistinct(subs_once)
        /\ \A i \in 1..Len(subs_in) : subs_once[i].deadline >= subs_in[i].deadline

\* three subjects shared one date and the list has been rearranged
C5_Witness ==
    /\ Resolved
    /\ \E i, j, k \in 1..Len(subs_in) :
          /\ i < j /\ j < k
          /\ subs_in[i].deadline = subs_in[j].deadline
          /\ subs_in[j].deadline = subs_in[k].deadline

\* C6: on a non-empty list with pairwise distinct deadlines detect_clashes is
\* false and rearrange_schedule changes no deadline and no position.
C6_NoClashNoChange ==
    (Len(subs_in) > 0 /\ PairwiseDistinct(subs_in)) =>
        /\ ~detect_clashes(subs_in)
        /\ Resolved => subs_once = subs_in

\* a list of three distinct deadlines, not in date order, has been rearranged
C6_Witness ==
    /\ Resolved
    /\ Len(subs_in) >= 3
    /\ PairwiseDistinct(subs_in)
    /\ subs_in[1].deadline > subs_in[2].deadline

\* C7: rearrange_schedule applied twice gives the deadlines it gives applied once.
C7_Idempotent == pc = "resolved_twice" => subs_twice = subs_once

\* the second call ran on the result of a first call that moved a deadline
C7_Witness ==
    /\ pc = "resolved_twice"
    /\ subs_once # subs_in

\* s comes before t in (original deadline, insertion index) order
Before(subs, s, t) ==
    \/ subs[s].deadline < subs[t].deadline
    \/ (subs[s].deadline = subs[t].deadline /\ s < t)

RankingKept ==
    \A s, t \in 1..Len(subs_in) :
        Before(subs_in, s, t) => subs_once[s].deadline < subs_once[t].deadline

SharedByExactly(subs, s, t) ==
    /\ s < t
    /\ subs[s].deadline = subs[t].deadline
    /\ \A u \in 1..Len(subs) : subs[u].deadline = subs[s].deadline => u \in {s, t}
    /\ \A u \in 1..Len(subs) : subs[u].deadline # subs[s].deadline + 1

OnlyClash(subs, s, t) ==
    \A u, v \in 1..Len(subs) :
        (u # v /\ subs[u].deadline = subs[v].deadline) => {u, v} = {s, t}

\* C8 as stated: the order by (original deadline, insertion index) becomes a
\* strict order of the new deadlines, and when exactly two subjects share a date
\* D and D+1 is free, the earlier-inserted keeps D and the later gets D+1.
C8_TwoSharingKeepAndPush ==
    Resolved =>
        /\ RankingKept
        /\ \A s, t \in 1..Len(subs_in) :
              SharedByExactly(subs_in, s, t) =>
                  /\ subs_once[s].deadline = subs_in[s].deadline
                  /\ subs_once[t].deadline = subs_in[s].deadline + 1

\* C8 amended: the order by (original deadline, insertion index) becomes a
\* strict order of the new deadlines, and when exactly two subjects share a date
\* D, D+1 is free and no other date is shared, the earlier-inserted keeps D and
\* the later gets D+1.
C8_OnlyClashKeepAndPush ==
    Resolved =>
        /\ RankingKept
        /\ \A s, t \in 1..Len(subs_in) :
              (SharedByExactly(subs_in, s, t) /\ OnlyClash(subs_in, s, t)) =>
                  /\ subs_once[s].deadline = subs_in[s].deadline
                  /\ subs_once[t].deadline = subs_in[s].deadline + 1

\* two of three subjects shared a date, the day after it was free, and the
\* list has been rearranged
C8_Witness ==
    /\ Resolved
    /\ Len(subs_in) >= 3
    /\ \E s, t \in 1..Len(subs_in) :
          SharedByExactly(subs_in, s, t) /\ OnlyClash(subs_in, s, t)

MalformedWindow ==
    params.end_hour <= params.start_hour \/ params.block_hours <= 0

\* C9: a timetable request with end_hour <= start_hour or block_hours <= 0 is
\* rejected as InvalidWindow before the builder runs: the day loop is not
\* entered, no block is allocated and no timetable is produced.
C9_MalformedWindowRejected ==
    (cmd = "timetable" /\ params # NoParams /\ MalformedWindow) =>
        /\ result = "InvalidWindow"
        /\ ~Running
        /\ timetable = <<>> /\ day_schedule = <<>>

FailureResults ==
    {"invalid_format_add", "invalid_diff", "invalid_date", "invalid_marks",
     "invalid_format_res", "not_found"}

\* C10: a failed add or a failed reschedule leaves the subject list and the
\* persisted list as they were and does not save.
C10_FailureLeavesStore ==
    [][(pc = "prompt" /\ cmd' \in {"add", "reschedule"} /\ result' \in FailureResults)
          => (subjects' = subjects /\ disk' = disk /\ saved' = FALSE)]_vars

\* an add failed on its marks while the list held a subject
C10_Witness ==
    /\ cmd = "add"
    /\ result = "invalid_marks"
    /\ Len(subjects) > 0
    /\ disk = save_subjects(subjects)

-----------------------------------------------------------------------------
(* C11: the store on disk follows the list in memory *)

\* C11: in every state the command loop can be in, and so whenever a command
\* has completed, the persisted list read back by load_subjects is the list in
\* memory; and a command that saved left on disk exactly what save_subjects
\* writes for the list in memory, so that no append, deadline change, clash
\* rearrangement or clear returns without its save.
C11_PersistedEqualsMemory ==
    /\ load_subjects(disk) = subjects
    /\ saved => disk = save_subjects(subjects)

\* a schedule command whose clash prompt was answered yes has rearranged two
\* stored subjects and returned
C11_Witness ==
    /\ pc = "prompt"
    /\ cmd = "schedule"
    /\ saved
    /\ Len(subjects) = 2
    /\ subjects[1].deadline # subjects[2].deadline
    /\ disk = save_subjects(subjects)

-----------------------------------------------------------------------------
(* C12: the days of the timetable *)

\* the calendar days from today through the latest deadline
DayRange == Today..MaxDeadline(subjects)

TimetableDates == {timetable[i].date : i \in 1..Len(timetable)}

\* C12: the entries being built are consecutive calendar days starting today,
\* none of them outside the range from today through the latest deadline; the
\* completed timetable has exactly one entry for each day of that range, in
\* chronological order (no entry at all when the latest deadline is before
\* today), a day whose block sequence is empty included; every day of the
\* range has an active subject, so none is omitted.
C12_OneEntryPerDayOfRange ==
    Running =>
        /\ \A i \in 1..Len(timetable) : timetable[i].date = Today + (i - 1)
        /\ TimetableDates \subseteq DayRange
        /\ \A d \in DayRange : Len(active_subjects(d)) > 0
        /\ pc = "print" =>
              /\ TimetableDates = DayRange
              /\ Len(timetable) = Cardinality(DayRange)

\* a completed timetable of two days, present although the window is too short
\* for a block and neither day holds one
C12_Witness ==
    /\ pc = "print"
    /\ params.block_hours > 0
    /\ Len(timetable) = 2
    /\ timetable[1].blocks = <<>>
    /\ timetable[2].blocks = <<>>

-----------------------------------------------------------------------------
(* C13, C14: the visiting order of a day *)

\* the allocation of a day is in progress or has just ended
InDay == pc \in {"while", "for", "after_for", "record"}

\* the subjects active on the day being planned, in add-order
ActiveToday == active_subjects(day_date)

\* C13: under order preference B the visiting order of the day at offset
\* day_offset from today is the active subjects in add-order rotated left by
\* day_offset modulo their number; the first block of the day goes to the
\* active subject at position day_offset modulo that number (counted from 0),
\* and there is such a block whenever a block fits the window.
C13_RotateByDayOffset ==
    (InDay /\ params.order_pref = "B") =>
        LET n == Len(ActiveToday)
            k == day_offset % n
        IN  /\ day_date = Today + day_offset
            /\ Len(day_order) = n
            /\ \A i \in 1..n : day_order[i] = ActiveToday[((i - 1 + k) % n) + 1].name
            /\ Len(day_schedule) >= 1 => day_schedule[1].name = ActiveToday[k + 1].name
            /\ (pc = "record" /\ BlockFits(start_time)) => Len(day_schedule) >= 1

\* on the second day two active subjects are visited in the order opposite to
\* their add-order, and the first block went to the second of them
C13_Witness ==
    /\ InDay
    /\ params.order_pref = "B"
    /\ day_offset = 1
    /\ Len(ActiveToday) = 2
    /\ ActiveToday[1].name # ActiveToday[2].name
    /\ Len(day_schedule) >= 1
    /\ day_schedule[1].name = ActiveToday[2].name

\* the positions in `subjects` of the subjects active on the day being planned
ActiveIndices == {i \in 1..Len(subjects) : IsActive(subjects[i], day_date)}

\* C14: under order preference C the active subjects are visited by ascending
\* deadline, subjects with equal deadlines in add-order; under order
\* preference A they are visited in add-order, the inactive ones left out.
C14_UrgencyAndFixedOrder ==
    InDay =>
        LET n == Len(ActiveToday)
        IN  /\ params.order_pref = "C" =>
                  /\ Len(day_order) = n
                  /\ \E p \in Permutations(1..n) :
                        /\ \A k \in 1..n : day_order[k] = ActiveToday[p[k]].name
                        /\ \A k, l \in 1..n :
                              k < l =>
                                 \/ ActiveToday[p[k]].deadline < ActiveToday[p[l]].deadline
                                 \/ /\ ActiveToday[p[k]].deadline = ActiveToday[p[l]].deadline
                                    /\ p[k] < p[l]
            /\ params.order_pref = "A" =>
                  /\ Len(day_order) = Cardinality(ActiveIndices)
                  /\ \E f \in [1..Len(day_order) -> ActiveIndices] :
                        /\ \A k, l \in 1..Len(day_order) : k < l => f[k] < f[l]
                        /\ \A k \in 1..Len(day_order) : day_order[k] = subjects[f[k]].name

\* under preference C the subject added second, due earlier than the first, is
\* visited first
C14_Witness ==
    /\ InDay
    /\ params.order_pref = "C"
    /\ Len(subjects) = 2
    /\ Len(ActiveToday) = 2
    /\ subjects[2].deadline < subjects[1].deadline
    /\ subjects[1].name # subjects[2].name
    /\ day_order = <<subjects[2].name, subjects[1].name>>
    /\ Len(day_schedule) >= 1

-----------------------------------------------------------------------------
(* C15: one subject, two hours a day, a three-hour window *)

\* Math alone, due in three days, with a daily quota of 2 hours; the session
\* asks for 09:00 to 12:00, blocks of 1 hour, breaks of 10 minutes, order A
SingleSubjectScenario ==
    /\ Len(subjects) = 1
    /\ subjects[1].name = "Math"
    /\ subjects[1].deadline = Today + 3
    /\ HasPlan(plan)
    /\ plan["Math"].daily_hours = 2
    /\ params = Param(9, 12, Hours(1), 10, "A")

\* 09:00 - 10:00 and 10:10 - 11:10, as minutes of the day
TwoMathBlocks ==
    <<[start |-> 9 * 60, end |-> 10 * 60, name |-> "Math"],
      [start |-> 10 * 60 + 10, end |-> 11 * 60 + 10, name |-> "Math"]>>

\* C15: in that scenario every day that has ended holds exactly the blocks
\* 09:00-10:00 Math and 10:10-11:10 Math, with the quota of Math used up, and
\* the completed timetable holds those two blocks on each of its four days,
\* today through today + 3.
C15_TwoBlocksEveryDay ==
    SingleSubjectScenario =>
        /\ pc = "record" => (day_schedule = TwoMathBlocks /\ hours_left["Math"] = 0)
        /\ \A i \in 1..Len(timetable) : timetable[i].blocks = TwoMathBlocks
        /\ pc = "print" =>
              timetable = [i \in 1..4 |-> [date |-> Today + (i - 1),
                                            blocks |-> TwoMathBlocks]]

\* the scenario has run to its end
C15_Witness ==
    /\ SingleSubjectScenario
    /\ pc = "print"
    /\ Len(timetable) = 4
    /\ timetable[4].blocks = TwoMathBlocks

-----------------------------------------------------------------------------
(* C16: reschedule touches the first subject of the name only *)

\* position i holds the first subject, in insertion order, that carries its name
FirstOfItsName(subs, i) == \A j \in 1..(i - 1) : subs[j].name # subs[i].name

\* C16: a reschedule that succeeds changes the deadline of one subject, the
\* first in insertion order among those sharing its name, and nothing else:
\* the list keeps its length and order, every other subject and every other
\* field of that subject stay as they were.
C16_RescheduleFirstMatchOnly ==
    [][(pc = "prompt" /\ cmd' = "reschedule" /\ result' = "rescheduled") =>
          \E i \in 1..Len(subjects) :
              /\ FirstOfItsName(subjects, i)
              /\ subjects' = [subjects EXCEPT ![i].deadline = subjects'[i].deadline]]_vars

\* two stored subjects share a name and a reschedule has moved the first of
\* them away from the deadline the second still has
C16_Witness ==
    /\ pc = "prompt"
    /\ cmd = "reschedule"
    /\ result = "rescheduled"
    /\ Len(subjects) = 2
    /\ subjects[1].name = subjects[2].name
    /\ subjects[1].deadline > subjects[2].deadline

-----------------------------------------------------------------------------
(* C17, C18, C19: the allocation loop of a day *)

\* end_hour > start_hour, block_hours > 0, break_minutes >= 0, daily_hours >= 1
ValidParameters ==
    /\ params.end_hour > params.start_hour
    /\ params.block_hours > 0
    /\ params.break_minutes >= 0
    /\ \A n \in DOMAIN plan : plan[n].daily_hours >= 1

\* the spans given since the current pass of the while loop began
PassSpans == {i \in (round_from + 1)..Len(spans) : TRUE}

\* C17: with valid parameters every pass of the while loop of a day, once its
\* for loop is over, has allocated at least one block of positive length and
\* has moved the cursor strictly forward from where the pass began, which is
\* what makes the loop of every day terminate.
C17_EveryPassAdvances ==
    (ValidParameters /\ pc = "after_for") =>
        /\ \E i \in PassSpans : spans[i].to > spans[i].from
        /\ \A i \in PassSpans : spans[i].from >= spans[round_from + 1].from
        /\ current_time > spans[round_from + 1].from

\* every subject of the day has been given exactly its daily hours
EveryQuotaGiven ==
    \A n \in DOMAIN hours_left :
        GivenTo(spans, n, Len(spans)) = Hours(plan[n].daily_hours)

\* C18: with valid parameters, when the allocation of a day has ended either
\* every active subject has been given exactly its daily hours that day, or
\* the cursor is so late that a block no longer fits before end_hour:00; the
\* day never ends with room for a block and a subject that has hours left.
C18_NeverStopsEarly ==
    (ValidParameters /\ pc = "record") =>
        /\ EveryQuotaGiven \/ ~BlockFits(current_time)
        /\ ~(BlockFits(current_time) /\ \E n \in DOMAIN hours_left : hours_left[n] > 0)

\* a day ends after two blocks with every quota given while a block would
\* still fit the window
C18_Witness ==
    /\ ValidParameters
    /\ pc = "record"
    /\ Len(spans) >= 2
    /\ EveryQuotaGiven
    /\ BlockFits(current_time)

\* the number of blocks a subject has been given so far today
BlocksOf(name) == Cardinality({i \in 1..Len(spans) : spans[i].name = name})

\* the place of a name in the visiting order of the day
PositionOf(name) == CHOOSE k \in 1..Len(day_order) : day_order[k] = name

\* C19: when the subjects of the day have distinct names, at every point of
\* the day's allocation two subjects that both have hours left have been
\* given numbers of blocks that differ by at most 1, and the blocks given in
\* the pass in progress go to subjects in the visiting order of the day, at
\* most one block each.
C19_RoundRobin ==
    (InDay /\ DistinctNames) =>
        /\ \A a, b \in DOMAIN hours_left :
              (hours_left[a] > 0 /\ hours_left[b] > 0) =>
                  /\ BlocksOf(a) - BlocksOf(b) <= 1
                  /\ BlocksOf(b) - BlocksOf(a) <= 1
        /\ \A i, j \in PassSpans :
              i < j => PositionOf(spans[i].name) < PositionOf(spans[j].name)

\* in the second pass of a day the first subject has two blocks, the second
\* has one, and both have hours left
C19_Witness ==
    /\ InDay
    /\ DistinctNames
    /\ Len(day_order) = 2
    /\ round_from = 2
    /\ BlocksOf(day_order[1]) = 2
    /\ BlocksOf(day_order[2]) = 1
    /\ hours_left[day_order[1]] > 0
    /\ hours_left[day_order[2]] > 0

-----------------------------------------------------------------------------
(* C20: how far the resolver moves a deadline *)

DeadlinesOf(subs) == {subs[i].deadline : i \in 1..Len(subs)}

\* C20: rearrange_schedule on a list of n subjects moves no deadline backward
\* and none forward by more than n - 1 days, and every date that was a
\* deadline before the call is still the deadline of some subject after it.
C20_BoundedShiftKeepsDates ==
    Resolved =>
        /\ Len(subs_once) = Len(subs_in)
        /\ \A i \in 1..Len(subs_in) :
              /\ subs_once[i].deadline >= subs_in[i].deadline
              /\ subs_once[i].deadline - subs_in[i].deadline <= Len(subs_in) - 1
        /\ DeadlinesOf(subs_in) \subseteq DeadlinesOf(subs_once)

\* four subjects shared one date: the last of them has been moved three days
\* and the date is still taken
C20_Witness ==
    /\ Resolved
    /\ Len(subs_in) = 4
    /\ Cardinality(DeadlinesOf(subs_in)) = 1
    /\ subs_once[4].deadline = subs_in[4].deadline + 3
    /\ subs_once[1].deadline = subs_in[1].deadline

====
